---- MODULE Spec2Model ----
(***************************************************************************)
(* Model of the Kvado API client (custom_components/kvado/api.py):         *)
(* KvadoApiClient._make_request (retry / backoff / re-authentication) and  *)
(* KvadoApiClient.authenticate, with the four data methods that call the   *)
(* request engine; and of the two callers in sensor.py, the coordinator's   *)
(* refresh cycle (KvadoDataUpdateCoordinator._async_update_data) and the   *)
(* send_meter_readings service handler.                                    *)
(*                                                                         *)
(* Spec drives the client directly, SpecRefresh runs refresh cycles        *)
(* against a server that answers anything, SpecScheduler runs them under   *)
(* the scheduler against a server with data of its own, SpecService calls  *)
(* the service, SpecInterleaved runs a cycle and a service call as two     *)
(* tasks on one client, and SpecSetup sets the entry up                    *)
(* (__init__.py, async_setup_entry).                                       *)
(*                                                                         *)
(* Coroutines are modelled as frames on a per-task call stack.  One action *)
(* is the code between two await points that hand control to the event     *)
(* loop (the HTTP exchange, asyncio.sleep); a coroutine returning to the   *)
(* coroutine that awaits it does not yield, so returns are unwound inside  *)
(* the action that produced them.                                          *)
(***************************************************************************)
EXTENDS Integers, Sequences, FiniteSets, TLC

\* ---------------------------------------------------------------- bounds
\* Largest number of re-authentications (401 answers) one top-level call
\* may run into; the server is not asked for a further 401 beyond it.  It
\* also bounds how deep authenticate() nests inside itself.
MaxReauth == 1
\* Longest meter_readings list a service call carries.
MaxReadings == 2

\* ------------------------------------------------------- program constants
MAX_RETRIES == 5
INITIAL_BACKOFF == 4
BACKOFF_MULTIPLIER == 2

AUTH_ENDPOINT == "/2.0/authentication"
ACCOUNTS_ENDPOINT == "/2.0/profile/accounts"
RECEIPTS_ENDPOINT == "/3.0/receipts"
METERS_ENDPOINT == "/2.0/meters"

\* Python's None, as a header / credential value.
None == "None"
\* The year get_receipts puts in its query string (datetime.now().year).
CurrentYear == "2026"

\* DEFAULT_HEADERS as the module defines it.
InitialDefaultHeaders ==
    [k \in {"Kvado-Certificate", "App-Source", "Connection",
            "Accept-Encoding", "Content-Type", "User-Agent"} |->
        CASE k = "Kvado-Certificate" -> "K6zJ74q8pH49MeKZNqe4BZYymgdjCAxdKJTS37umE8s84rLxu7BCYnRY6CDYbNHf"
          [] k = "App-Source" -> "app_lk_citizen"
          [] k = "Connection" -> "Keep-Alive"
          [] k = "Accept-Encoding" -> "gzip"
          [] k = "Content-Type" -> "application/json; charset=UTF-8"
          [] k = "User-Agent" -> "AndroidResidentAccount/1.0"]

\* d[k] = v on a Python dict.
DictSet(d, k, v) == [x \in DOMAIN d \cup {k} |-> IF x = k THEN v ELSE d[x]]

\* {**a, **b}
DictMerge(a, b) == [x \in DOMAIN a \cup DOMAIN b |-> IF x \in DOMAIN b THEN b[x] ELSE a[x]]

\* ------------------------------------------------------------ environment
\* Response bodies the server may send.  kind "dict" is a non-empty JSON
\* object, "empty" a falsy JSON value ({} or null), "list" a non-empty JSON
\* array, "unparsable" a body response.json() raises on.  Of a dict only the
\* fields the client reads are kept: token and sessionID (a login answer)
\* and message (an error answer); a field that is missing reads as None.
Body(kind, token, sessionID, message) ==
    [kind |-> kind, token |-> token, sessionID |-> sessionID, message |-> message]

NoBody == Body("None", None, None, None)

Bodies ==
    { Body("dict", "tok1", "sid1", None),
      Body("dict", None, None, "Invalid meter value"),
      Body("empty", None, None, None),
      Body("list", None, None, None),
      Body("unparsable", None, None, None) }

\* status 0 stands for a transport failure: session.request or
\* response.text() raises and no status is seen.
TransportFailure == 0
Statuses == {200, 400, 401, 404, 500, 503}

\* For a 400 only the message matters.
ErrorBodies == { b \in Bodies : b.token = None }

Responses ==
    { [status |-> 200, body |-> b] : b \in Bodies }
    \cup { [status |-> 400, body |-> b] : b \in ErrorBodies \ {Body("list", None, None, None)} }
    \cup { [status |-> s, body |-> NoBody] : s \in (Statuses \ {200, 400}) \cup {TransportFailure} }

\* ----------------------------------------------------------- account data
\* JSON scalars: an identifier arrives as a number or as a string, and
\* str() gives its text.
JInt(digits) == [type |-> "int", repr |-> digits]
JStr(text) == [type |-> "str", repr |-> text]
PyStr(x) == x.repr

\* JSON null where an object is expected, and the empty object {}.
Null == [null |-> TRUE]
EmptyDict == [k \in {} |-> None]
IsNull(x) == "null" \in DOMAIN x

\* d.get(k, default)
DictGet(d, k, default) == IF k \in DOMAIN d THEN d[k] ELSE default

\* A non-empty JSON object with the given keys besides those of Body.
DataBody(keys) == DictMerge(Body("dict", None, None, None), keys)

\* Answers to GET /3.0/receipts: the amount at info.total_pay_amount.value,
\* the value key missing, total_pay_amount missing, info missing, info
\* null, and {}.
ReceiptsWith(value) == DataBody([info |-> [total_pay_amount |-> [value |-> value]]])
ReceiptsBodies ==
    { ReceiptsWith("1500.50"),
      DataBody([info |-> [total_pay_amount |-> EmptyDict]]),
      DataBody([info |-> EmptyDict]),
      DataBody([year |-> CurrentYear]),
      DataBody([info |-> Null]),
      Body("empty", None, None, None) }

\* The meters the server lists for an account carry identifiers of their
\* own: a meter belongs to one account.
MeterID(account_id, n) == JInt(account_id \o "0" \o n)

\* Answers to GET /2.0/meters for an account: two meters, the first with
\* two readings (newest first) and the second without a values key; one
\* meter whose first reading has no value; one meter with an empty values
\* list; no meters key; and {}.
TwoMeters(account_id) ==
    DataBody([meters |-> << [ID |-> MeterID(account_id, "1"),
                             values |-> << [value |-> "12.5"], [value |-> "9.0"] >>],
                            [ID |-> MeterID(account_id, "2")] >>])
MetersBodies(account_id) ==
    { TwoMeters(account_id),
      DataBody([meters |-> << [ID |-> MeterID(account_id, "1"),
                               values |-> << EmptyDict >>] >>]),
      DataBody([meters |-> << [ID |-> MeterID(account_id, "1"),
                               values |-> << >>] >>]),
      DataBody([count |-> "0"]),
      Body("empty", None, None, None) }

Tasks == {"main"}

VARIABLES
    token,            \* KvadoApiClient.token
    session_id,       \* KvadoApiClient.session_id
    entry_id,         \* KvadoApiClient.entry_id
    entry,            \* the persisted configuration record (entry.data)
    DEFAULT_HEADERS,  \* the module-level dict, shared by reference
    stack,            \* per task: the coroutine frames, outermost first
    returned,         \* the calls that returned during the last step, in
                      \* order; the last one is what the task's caller got
    reauths,          \* per task: re-authentications triggered by the call
    accounts,         \* KvadoDataUpdateCoordinator._accounts
    selected_accounts,\* KvadoDataUpdateCoordinator._selected_accounts
    data,             \* KvadoDataUpdateCoordinator.data, the snapshot the
                      \* sensors read
    sensor_state,     \* KvadoSensor._account_data / KvadoMeterSensor._meter_data
    steady,           \* bookkeeping on the server's side: how many cycles
                      \* in a row (up to 2) have published while the
                      \* server's data stayed the same and it answered every
                      \* request, whether one of them re-authenticated,
                      \* and whether the running cycle was refused an answer
    upstream,         \* the account data the server holds, where the
                      \* server is modelled with data of its own
    hass_data,        \* hass.data[DOMAIN], the shared registry, by entry id
    platforms         \* the platforms set up for the entry

vars == <<token, session_id, entry_id, entry, DEFAULT_HEADERS, stack,
          returned, reauths, accounts, selected_accounts, data, sensor_state,
          steady, upstream, hass_data, platforms>>

\* ------------------------------------------------------------ client state
\* KvadoApiClient.username / password (fixed at construction).
username == "user"
password == "secret"

\* A falsy Python value, as `not response` and `all([...])` see it.
Truthy(b) == b.kind \in {"dict", "list"}
TruthyStr(s) == s # None /\ s # ""

\* Exceptions as values; NoExc is "nothing raised".
Exc(type, message) == [exc |-> type, message |-> message]
NoExc == Exc("None", None)

\* What a finished _make_request hands to its awaiter: the returned value,
\* the exception that left the coroutine (NoExc when it returned), and the
\* message of the _LOGGER.error line written on the way out.
ReqOutcome(ret, raised, log) == [ret |-> ret, raised |-> raised, log |-> log]
\* What a finished authenticate hands to its awaiter.
AuthOutcome(ok, raised, after) == [ok |-> ok, raised |-> raised, after |-> after]

\* The machine a task's step works on: the client's fields, the persisted
\* record, the shared default headers and the task's own stack.
Machine(t) ==
    [token |-> token, session_id |-> session_id, entry |-> entry,
     DEFAULT_HEADERS |-> DEFAULT_HEADERS, stack |-> stack[t],
     returned |-> <<>>, reauths |-> reauths[t],
     data |-> data, sensor_state |-> sensor_state, steady |-> steady,
     hass_data |-> hass_data, platforms |-> platforms]

Creds(M) == [token |-> M.token, session_id |-> M.session_id, entry |-> M.entry]

Last(tr) == tr[Len(tr)]
Top(M) == M.stack[Len(M.stack)]
SetTop(M, f) == [M EXCEPT !.stack[Len(M.stack)] = f]
Push(M, f) == [M EXCEPT !.stack = Append(@, f)]
Pop(M) == [M EXCEPT !.stack = SubSeq(@, 1, Len(@) - 1)]

\* The dict a _make_request frame's `headers` parameter refers to:
\* authenticate passes the module-level DEFAULT_HEADERS itself, the data
\* methods pass a fresh dict.
HeadersOf(M, f) == IF f.aliased THEN M.DEFAULT_HEADERS ELSE f.headers

\* Variant of SetSessionHeader: the refreshed identifier is not injected.
SetSessionHeaderStale(M) == M

\* headers["Session-Id"] = self.session_id, through the reference.
SetSessionHeader(M) ==
    LET f == Top(M) IN
    IF f.aliased
    THEN [M EXCEPT !.DEFAULT_HEADERS = DictSet(@, "Session-Id", M.session_id)]
    ELSE SetTop(M, [f EXCEPT !.headers = DictSet(@, "Session-Id", M.session_id)])

\* Entry of _make_request: url and backoff are set, the loop starts at
\* attempt 0 and suspends in session.request.
RequestFrame(method, endpoint, aliased, headers, payload) ==
    [fn |-> "_make_request", method |-> method, url |-> endpoint,
     payload |-> payload, aliased |-> aliased, headers |-> headers,
     attempt |-> 0, backoff |-> INITIAL_BACKOFF, pc |-> "request",
     trace |-> <<>>]

AuthFrame(M) == [fn |-> "authenticate", pc |-> "_make_request", before |-> Creds(M)]

NoPayload == [none |-> TRUE]

\* Events a _make_request frame records in its trace: one per HTTP exchange
\* (status TransportFailure when it raised), one per asyncio.sleep, one per
\* awaited authenticate.
RequestEvent(M, f, r) ==
    [ev |-> "request", method |-> f.method, url |-> f.url, payload |-> f.payload,
     headers |-> HeadersOf(M, f), status |-> r.status, body |-> r.body,
     attempt |-> f.attempt]
SleepEvent(f) == [ev |-> "sleep", secs |-> f.backoff, attempt |-> f.attempt]
\* `await self.authenticate()` came back: its verdict and the session
\* identifier the client holds at that moment.
AuthEvent(M, f, ok) ==
    [ev |-> "authenticate", ok |-> ok, session_id |-> M.session_id,
     attempt |-> f.attempt]

Log(M, e) == SetTop(M, [Top(M) EXCEPT !.trace = Append(@, e)])

\* The message the 400 branch builds from the response body.
ErrorMessage400(b) ==
    IF b.kind \in {"dict", "empty"}
    THEN (IF b.message # None THEN b.message ELSE "API returned status 400")
    ELSE "API returned status 400 with no readable error message"

\* Variant of StatusBranch: every 5xx status takes the backoff branch.
StatusBranchAll5xx(status) ==
    CASE status = 200 -> "ok"
      [] status = 400 -> "bad_request"
      [] status = 401 -> "unauthorized"
      [] status >= 500 /\ status <= 599 -> "server_error"
      [] OTHER -> "other"

\* The branch of the if / elif chain a status selects.
StatusBranch(status) ==
    CASE status = 200 -> "ok"
      [] status = 400 -> "bad_request"
      [] status = 401 -> "unauthorized"
      [] status = 500 -> "server_error"
      [] OTHER -> "other"

\* ------------------------------------------------------------ data methods
\* {**DEFAULT_HEADERS, "Session-Id": ..., "Account-Id": ..., "Organization-Id": ...}
AccountHeaders(M, account_id, organization_id) ==
    DictMerge(M.DEFAULT_HEADERS,
              [k \in {"Session-Id", "Account-Id", "Organization-Id"} |->
                  CASE k = "Session-Id" -> M.session_id
                    [] k = "Account-Id" -> account_id
                    [] k = "Organization-Id" -> organization_id])

\* `if not all([self.session_id, account_id, organization_id]): return None`
MissingParameters(M, account_id, organization_id) ==
    ~(TruthyStr(M.session_id) /\ TruthyStr(account_id) /\ TruthyStr(organization_id))

\* The _make_request call of get_receipts and of get_meters.
ReceiptsRequest(M, account_id, organization_id) ==
    RequestFrame("GET", RECEIPTS_ENDPOINT \o "?year=" \o CurrentYear, FALSE,
                 AccountHeaders(M, account_id, organization_id), NoPayload)
MetersRequest(M, account_id, organization_id) ==
    RequestFrame("GET", METERS_ENDPOINT, FALSE,
                 AccountHeaders(M, account_id, organization_id), NoPayload)

\* ------------------------------------------------------------- coordinator
\* data = {"accounts": {}, "meters": {}}
FreshData == [accounts |-> EmptyDict, meters |-> EmptyDict]

\* The result of an expression that may raise.
Value(v) == [raised |-> NoExc, value |-> v]
Raised(e) == [raised |-> e, value |-> None]
NoneHasNoGet == Exc("AttributeError", "'NoneType' object has no attribute 'get'")

\* Variant of TotalPayAmount: the guard on receipts_data is missing, so a
\* failed fetch (None) raises.
TotalPayAmountUnguarded(receipts_data) ==
    IF receipts_data.kind = "None"
    THEN Raised(NoneHasNoGet)
    ELSE IF receipts_data.kind # "dict"
    THEN Value("N/A")
    ELSE LET info == DictGet(receipts_data, "info", EmptyDict) IN
         IF IsNull(info)
         THEN Raised(NoneHasNoGet)
         ELSE LET total == DictGet(info, "total_pay_amount", EmptyDict) IN
              IF IsNull(total)
              THEN Raised(NoneHasNoGet)
              ELSE Value(DictGet(total, "value", None))

\* receipts_data.get("info", {}).get("total_pay_amount", {}).get("value")
\* if receipts_data and isinstance(receipts_data, dict) else "N/A"
TotalPayAmount(receipts_data) ==
    IF receipts_data.kind # "dict"
    THEN Value("N/A")
    ELSE LET info == DictGet(receipts_data, "info", EmptyDict) IN
         IF IsNull(info)
         THEN Raised(NoneHasNoGet)
         ELSE LET total == DictGet(info, "total_pay_amount", EmptyDict) IN
              IF IsNull(total)
              THEN Raised(NoneHasNoGet)
              ELSE Value(DictGet(total, "value", None))

\* Variant of MeterValue: the last element of the values list is read.
MeterValueLast(meter) ==
    LET values == DictGet(meter, "values", << EmptyDict >>) IN
    IF Len(values) = 0
    THEN Raised(Exc("IndexError", "list index out of range"))
    ELSE Value(DictGet(values[Len(values)], "value", "N/A"))

\* meter.get("values", [{}])[0].get("value", "N/A")
MeterValue(meter) ==
    LET values == DictGet(meter, "values", << EmptyDict >>) IN
    IF Len(values) = 0
    THEN Raised(Exc("IndexError", "list index out of range"))
    ELSE Value(DictGet(values[1], "value", "N/A"))

\* for meter in meters["meters"]: data["meters"][str(meter["ID"])] = value
RECURSIVE StoreMeters(_, _)
StoreMeters(snapshot, meters) ==
    IF meters = << >>
    THEN [raised |-> NoExc, data |-> snapshot]
    ELSE LET meter == Head(meters)
             value == MeterValue(meter)
         IN  IF value.raised # NoExc
             THEN [raised |-> value.raised, data |-> snapshot]
             ELSE StoreMeters([snapshot EXCEPT !.meters =
                                   DictSet(@, PyStr(meter.ID), value.value)],
                              Tail(meters))

\* `if meters and "meters" in meters`
HasMeters(meters) == meters.kind = "dict" /\ "meters" \in DOMAIN meters

\* raise UpdateFailed("Error fetching data: {}".format(e))
UpdateFailed(e) == Exc("UpdateFailed", "Error fetching data: " \o e.message)

\* What a finished _async_update_data hands to the scheduler.
UpdateOutcome(ret, raised) == [ret |-> ret, raised |-> raised]

\* One awaited get_receipts / get_meters and what it returned.
Fetch(method, account_id, ret) == [method |-> method, account_id |-> account_id, ret |-> ret]

\* _async_update_data at its entry; `fetched` lists the fetches made so far.
UpdateFrame ==
    [fn |-> "_async_update_data", pc |-> "loop", i |-> 1, data |-> FreshData,
     fetched |-> << >>]

\* The scheduler's refresh awaiting _async_update_data.
RefreshFrame == [fn |-> "async_refresh"]

\* Variant of StoreAccount: the entry is written into the published
\* snapshot as well as into the one being built.
StoreAccountInPlace(M, account_id, value) ==
    [SetTop(M, [Top(M) EXCEPT !.data.accounts = DictSet(@, account_id, value)])
        EXCEPT !.data.accounts = DictSet(@, account_id, value)]

\* data["accounts"][account_id] = total_pay_amount, on the local dict.
StoreAccount(M, account_id, value) ==
    SetTop(M, [Top(M) EXCEPT !.data.accounts = DictSet(@, account_id, value)])

\* Sensors exist for the selected accounts of the account list and for the
\* meters the server lists for them.
SensorAccounts == { PyStr(accounts[i].ID) : i \in 1..Len(accounts) } \cap selected_accounts
SensorMeters == { PyStr(MeterID(a, n)) : a \in SensorAccounts, n \in {"1", "2"} }

\* _handle_coordinator_update of every sensor: each reads its entry of the
\* coordinator's data, "N/A" when there is none.
HandleCoordinatorUpdate(M) ==
    [M EXCEPT !.sensor_state =
        [accounts |-> [a \in SensorAccounts |-> DictGet(M.data.accounts, a, "N/A")],
         meters |-> [m \in SensorMeters |-> DictGet(M.data.meters, m, "N/A")]]]

\* ------------------------------------------- send_meter_readings service
\* hass.states: an account sensor of the integration, one of its meter
\* sensors, a sensor that carries an Account ID but no Organization ID, and
\* an entity of another domain that carries every identifier.
\* "sensor.kvado_gone" has no state.
States ==
    ("sensor.kvado_account" :>
        [domain |-> "sensor",
         attributes |-> ("Account ID" :> "1" @@ "Organization ID" :> "5")]) @@
    ("sensor.kvado_meter" :>
        [domain |-> "sensor", attributes |-> ("Meter ID" :> "101")]) @@
    ("sensor.foreign_account" :>
        [domain |-> "sensor", attributes |-> ("Account ID" :> "9")]) @@
    ("number.kvado" :>
        [domain |-> "number",
         attributes |-> ("Account ID" :> "1" @@ "Organization ID" :> "5" @@ "Meter ID" :> "101")])

\* vol.Coerce(float): float(v), vol.Invalid when float() raises.
Invalid(message) == Exc("Invalid", message)
CoerceFloat(v) ==
    IF v.repr \in {"12.5", "7"}
    THEN Value(IF v.repr = "7" THEN "7.0" ELSE v.repr)
    ELSE Raised(Invalid("newValue must be a float"))

\* Variant of Length: no lower bound on the list.
LengthAny(list) == TRUE

\* vol.Length(min=1)
Length(list) == Len(list) >= 1

\* SEND_METER_READINGS_SCHEMA(dict(call.data)): every item of the list is
\* validated, then the length of the list.
SEND_METER_READINGS_SCHEMA(call) ==
    IF \E i \in 1..Len(call.meter_readings) :
          CoerceFloat(call.meter_readings[i].newValue).raised # NoExc
    THEN [raised |-> Invalid("newValue must be a float"), data |-> call]
    ELSE IF ~Length(call.meter_readings)
    THEN [raised |-> Invalid("length of value must be at least 1"), data |-> call]
    ELSE [raised |-> NoExc,
          data |-> [call EXCEPT !.meter_readings =
                       [i \in 1..Len(call.meter_readings) |->
                           [entity_id |-> call.meter_readings[i].entity_id,
                            newValue |-> CoerceFloat(call.meter_readings[i].newValue).value]]]]

\* `not entity or entity.domain != "sensor" or "Account ID" not in
\* entity.attributes` does not hold.
KvadoSensorEntity(entity_id) ==
    /\ entity_id \in DOMAIN States
    /\ States[entity_id].domain = "sensor"
    /\ "Account ID" \in DOMAIN States[entity_id].attributes

\* Variant of KvadoMeterEntity: the domain is not looked at.
KvadoMeterEntityAnyDomain(entity_id) ==
    /\ entity_id \in DOMAIN States
    /\ "Meter ID" \in DOMAIN States[entity_id].attributes

\* `not meter_entity or meter_entity.domain != "sensor" or "Meter ID" not
\* in meter_entity.attributes` does not hold.
KvadoMeterEntity(entity_id) ==
    /\ entity_id \in DOMAIN States
    /\ States[entity_id].domain = "sensor"
    /\ "Meter ID" \in DOMAIN States[entity_id].attributes

\* The list the loop builds, one item per reading.
MeterReadings(readings) ==
    [i \in 1..Len(readings) |->
        [ID |-> DictGet(States[readings[i].entity_id].attributes, "Meter ID", None),
         values |-> << [systemCatalogBetID |-> 1, newValue |-> readings[i].newValue] >>]]

\* The _make_request call of send_meter_readings.
ReadingsRequest(M, account_id, organization_id, meter_readings, confirm) ==
    RequestFrame("POST", METERS_ENDPOINT, FALSE,
                 AccountHeaders(M, account_id, organization_id),
                 [confirm |-> confirm, meters |-> meter_readings])

HomeAssistantError(message) == Exc("HomeAssistantError", message)
ServiceFrame(call) == [fn |-> "handle_send_meter_readings", call |-> call]
ServiceOutcome(raised) == [raised |-> raised]

\* ------------------------------------------------------ integration setup
\* The entry the integration is configured with: its id, the platforms
\* the integration forwards it to and its selected_accounts.
ENTRY_ID == "entry1"
PLATFORMS == {"sensor"}
EntrySelectedAccounts == << "1" >>

\* hass.data[DOMAIN][entry.entry_id]: the client and the selection.  The
\* client stored at setup has no entry_id; the sensor platform then stores
\* its own, which carries the entry's id.
RegistryEntry(client_entry_id) ==
    [api_client |-> [entry_id |-> client_entry_id],
     selected_accounts |-> EntrySelectedAccounts]

\* The entry has not been set up, or it has and its platform is running.
NotLoaded == hass_data = EmptyDict /\ platforms = {}
Loaded == hass_data = (ENTRY_ID :> RegistryEntry(ENTRY_ID)) /\ platforms = PLATFORMS

ConfigEntryNotReady(message) == Exc("ConfigEntryNotReady", message)
SetupFrame == [fn |-> "async_setup_entry"]
SetupOutcome(ret, raised) == [ret |-> ret, raised |-> raised]

\* KvadoApiClient(hass, username, password, token, session_id) built from
\* entry.data.
NewClient(M) == [M EXCEPT !.token = M.entry.token, !.session_id = M.entry.session_id]

RECURSIVE Return(_, _), Resume(_, _), MakeRequestResume(_, _),
          AuthenticateResume(_, _), NextIteration(_), ExceptException(_, _),
          ReauthDone(_, _), UpdateLoop(_), AfterReceipts(_, _),
          AfterMeters(_, _), UpdateDataResume(_, _), RefreshResume(_, _),
          ServiceResume(_, _), SetupResume(_, _)

\* The top frame finishes with outcome `out`; its awaiter, if any, resumes.
Return(M, out) ==
    LET done == [frame |-> Top(M), out |-> out]
        M1 == [Pop(M) EXCEPT !.returned = Append(@, done)]
    IN  IF M1.stack = <<>>
        THEN M1
        ELSE Resume(M1, out)

Resume(M, out) ==
    CASE Top(M).fn = "authenticate" -> AuthenticateResume(M, out)
      [] Top(M).fn = "_make_request" -> MakeRequestResume(M, out)
      [] Top(M).fn = "_async_update_data" -> UpdateDataResume(M, out)
      [] Top(M).fn = "async_refresh" -> RefreshResume(M, out)
      [] Top(M).fn = "handle_send_meter_readings" -> ServiceResume(M, out)
      [] Top(M).fn = "async_setup_entry" -> SetupResume(M, out)

\* End of one pass of `for attempt in range(MAX_RETRIES)`: either the next
\* pass suspends in session.request, or the loop is over.
NextIteration(M) ==
    LET f == Top(M) IN
    IF f.attempt + 1 < MAX_RETRIES
    THEN SetTop(M, [f EXCEPT !.attempt = @ + 1, !.pc = "request"])
    ELSE Return(M, ReqOutcome(NoBody, NoExc, "Max retries (5) exceeded"))

\* Variant of ExceptException: the handler sits inside the loop and the
\* failed attempt only uses up one pass.
ExceptExceptionRetry(M, e) == NextIteration(M)

\* `except Exception as e: _LOGGER.error(...); return None` around the loop
\* body: whatever is raised inside the try ends the call with None.
ExceptException(M, e) == Return(M, ReqOutcome(NoBody, NoExc, e.message))

\* Variant of ReauthDone: a successful re-authentication repeats the pass
\* instead of moving on to the next one.
ReauthDoneSamePass(M, ok) ==
    IF ok
    THEN SetTop(SetSessionHeader(M), [Top(SetSessionHeader(M)) EXCEPT !.pc = "request"])
    ELSE Return(M, ReqOutcome(NoBody, NoExc, "Re-authentication failed"))

\* Variant of ReauthDone: a failed re-authentication is treated like a
\* failed attempt and the loop goes on.
ReauthDoneKeepGoing(M, ok) ==
    NextIteration(IF ok THEN SetSessionHeader(M) ELSE M)

\* Variant of ReauthDone: the call ends after the re-authentication and
\* the request is not sent again.
ReauthDoneGiveUp(M, ok) ==
    Return(M, ReqOutcome(NoBody, NoExc, "Re-authentication failed"))

\* The 401 branch once authenticate has returned `ok`.
ReauthDone(M, ok) ==
    IF ok
    THEN NextIteration(SetSessionHeader(M))
    ELSE Return(M, ReqOutcome(NoBody, NoExc, "Re-authentication failed"))

\* _make_request after `await self.authenticate()` came back.
MakeRequestResume(M, out) ==
    IF out.raised # NoExc
    THEN ExceptException(M, out.raised)
    ELSE ReauthDone(Log(M, AuthEvent(M, Top(M), out.ok)), out.ok)

\* Variant of StoreCredentials: a token the client already holds is kept.
StoreCredentialsKeepToken(M, response) ==
    [M EXCEPT !.token = IF M.token # None THEN M.token ELSE response.token,
              !.session_id = response.sessionID]

\* self.token = response.get("token")
\* self.session_id = response.get("sessionID")
StoreCredentials(M, response) ==
    [M EXCEPT !.token = response.token,
              !.session_id = response.sessionID]

\* Variant of UpdateEntry: only the session identifier is persisted.
UpdateEntrySessionOnly(M) ==
    IF entry_id # None /\ M.entry.exists
    THEN [M EXCEPT !.entry.session_id = M.session_id]
    ELSE M

\* `if self.entry_id and async_get_entry(self.entry_id)`: the fresh pair is
\* written into the persisted record, the other keys of entry.data kept.
UpdateEntry(M) ==
    IF entry_id # None /\ M.entry.exists
    THEN [M EXCEPT !.entry.session_id = M.session_id,
                   !.entry.token = M.token]
    ELSE M

\* authenticate after `await self._make_request(...)` came back.
AuthenticateResume(M, out) ==
    LET response == out.ret IN
    IF out.raised # NoExc
    THEN Return(M, AuthOutcome(FALSE, out.raised, Creds(M)))
    ELSE IF ~Truthy(response)
    THEN Return(M, AuthOutcome(FALSE, NoExc, Creds(M)))
    ELSE IF response.kind # "dict"
    THEN Return(M, AuthOutcome(FALSE, Exc("AttributeError", "'list' object has no attribute 'get'"), Creds(M)))
    ELSE LET M1 == StoreCredentials(M, response)
             M2 == UpdateEntry(M1)
         IN  Return(M2, AuthOutcome(TRUE, NoExc, Creds(M2)))

\* Variant of Selected: every account of the list is polled.
SelectedAny(account_id) == TRUE

\* `if account_id in self._selected_accounts`
Selected(account_id) == account_id \in selected_accounts

\* Variant of ExceptUpdateFailed: the handler returns what the cycle has
\* gathered so far.
ExceptUpdateFailedPartial(M, e) == Return(M, UpdateOutcome(Top(M).data, NoExc))

\* `except Exception as e: raise UpdateFailed(...)` around the whole cycle.
ExceptUpdateFailed(M, e) == Return(M, UpdateOutcome(FreshData, UpdateFailed(e)))

\* `for account in self._accounts` from the account at position i on: the
\* accounts that are not selected are skipped, the next selected one has
\* its receipts fetched; after the last account the snapshot is returned.
UpdateLoop(M) ==
    LET f == Top(M) IN
    IF f.i > Len(accounts)
    THEN Return(M, UpdateOutcome(f.data, NoExc))
    ELSE LET account_id == PyStr(accounts[f.i].ID)
             organization_id == PyStr(accounts[f.i].organizationID)
             M1 == SetTop(M, [f EXCEPT !.pc = "get_receipts"])
         IN  IF ~Selected(account_id)
             THEN UpdateLoop(SetTop(M, [f EXCEPT !.i = @ + 1]))
             ELSE IF MissingParameters(M, account_id, organization_id)
             THEN AfterReceipts(M1, NoBody)
             ELSE Push(M1, ReceiptsRequest(M, account_id, organization_id))

\* get_receipts came back: the amount is stored and the meters are fetched.
AfterReceipts(M, receipts_data) ==
    LET f == Top(M)
        account_id == PyStr(accounts[f.i].ID)
        organization_id == PyStr(accounts[f.i].organizationID)
        total_pay_amount == TotalPayAmount(receipts_data)
        M1 == SetTop(M, [f EXCEPT !.fetched =
                            Append(@, Fetch("get_receipts", account_id, receipts_data))])
    IN  IF total_pay_amount.raised # NoExc
        THEN ExceptUpdateFailed(M1, total_pay_amount.raised)
        ELSE LET M2 == StoreAccount(M1, account_id, total_pay_amount.value)
                 M3 == SetTop(M2, [Top(M2) EXCEPT !.pc = "get_meters"])
             IN  IF MissingParameters(M, account_id, organization_id)
                 THEN AfterMeters(M3, NoBody)
                 ELSE Push(M3, MetersRequest(M, account_id, organization_id))

\* Variant of AfterMeters: `return data` sits inside the loop, so the cycle
\* ends after the first selected account.
AfterMetersReturnEarly(M, meters) ==
    LET f == Top(M)
        account_id == PyStr(accounts[f.i].ID)
        M1 == SetTop(M, [f EXCEPT !.fetched =
                            Append(@, Fetch("get_meters", account_id, meters))])
        stored == IF HasMeters(meters)
                  THEN StoreMeters(Top(M1).data, meters.meters)
                  ELSE [raised |-> NoExc, data |-> Top(M1).data]
    IN  IF stored.raised # NoExc
        THEN ExceptUpdateFailed(M1, stored.raised)
        ELSE Return(SetTop(M1, [Top(M1) EXCEPT !.data = stored.data]),
                    UpdateOutcome(stored.data, NoExc))

\* get_meters came back: every listed meter's value is stored and the loop
\* moves on to the next account.
AfterMeters(M, meters) ==
    LET f == Top(M)
        account_id == PyStr(accounts[f.i].ID)
        M1 == SetTop(M, [f EXCEPT !.fetched =
                            Append(@, Fetch("get_meters", account_id, meters))])
        stored == IF HasMeters(meters)
                  THEN StoreMeters(Top(M1).data, meters.meters)
                  ELSE [raised |-> NoExc, data |-> Top(M1).data]
    IN  IF stored.raised # NoExc
        THEN ExceptUpdateFailed(M1, stored.raised)
        ELSE UpdateLoop(SetTop(M1, [Top(M1) EXCEPT !.data = stored.data,
                                                   !.i = @ + 1]))

UpdateDataResume(M, out) ==
    IF Top(M).pc = "get_receipts"
    THEN AfterReceipts(M, out.ret)
    ELSE AfterMeters(M, out.ret)

\* The run of undisturbed cycles after one more cycle has ended.
SteadyAfter(M, published) ==
    IF published /\ ~M.steady.faulty
    THEN [run |-> IF M.steady.run < 2 THEN M.steady.run + 1 ELSE 2,
          reauth |-> M.steady.reauth \/ M.reauths > 0,
          faulty |-> FALSE]
    ELSE [run |-> 0, reauth |-> FALSE, faulty |-> FALSE]

\* The scheduler after _async_update_data: a returned snapshot replaces
\* coordinator.data and the listeners run; UpdateFailed leaves the data.
RefreshResume(M, out) ==
    IF out.raised # NoExc
    THEN Return([M EXCEPT !.steady = SteadyAfter(M, FALSE)], [ok |-> FALSE])
    ELSE Return(HandleCoordinatorUpdate(
                    [M EXCEPT !.data = out.ret, !.steady = SteadyAfter(M, TRUE)]),
                [ok |-> TRUE])

\* handle_send_meter_readings after `await api_client.send_meter_readings`.
ServiceResume(M, out) ==
    IF out.ret.kind = "None"
    THEN Return(M, ServiceOutcome(HomeAssistantError(
                       "Failed to send meter readings. Check Home Assistant logs")))
    ELSE Return(M, ServiceOutcome(NoExc))

\* Variant of SetupResume: the client is stored in the registry before the
\* verdict of authenticate is looked at.
SetupResumeStoreFirst(M, out) ==
    LET M1 == [M EXCEPT !.hass_data = DictSet(@, ENTRY_ID, RegistryEntry(None))] IN
    IF out.raised # NoExc
    THEN Return(M1, SetupOutcome(FALSE, out.raised))
    ELSE IF ~out.ok
    THEN Return(M1, SetupOutcome(FALSE,
                        ConfigEntryNotReady("Failed to authenticate with Kvado API.")))
    ELSE Return([M1 EXCEPT !.platforms = PLATFORMS], SetupOutcome(TRUE, NoExc))

\* async_setup_entry after `await api_client.authenticate()`: a failure
\* raises ConfigEntryNotReady; otherwise the client is stored under the
\* entry's id and the entry is forwarded to the platforms, whose own setup
\* the framework runs.
SetupResume(M, out) ==
    IF out.raised # NoExc
    THEN Return(M, SetupOutcome(FALSE, out.raised))
    ELSE IF ~out.ok
    THEN Return(M, SetupOutcome(FALSE,
                       ConfigEntryNotReady("Failed to authenticate with Kvado API.")))
    ELSE Return([M EXCEPT !.hass_data = DictSet(@, ENTRY_ID, RegistryEntry(None)),
                          !.platforms = PLATFORMS],
                SetupOutcome(TRUE, NoExc))

\* handle_send_meter_readings up to its first await: the schema, the
\* originating entity, every listed entity, then the submission.
ServiceCall(M) ==
    LET call == Top(M).call
        validated == SEND_METER_READINGS_SCHEMA(call)
        readings == validated.data.meter_readings
        attributes == States[call.entity_id].attributes
        account_id == DictGet(attributes, "Account ID", None)
        organization_id == DictGet(attributes, "Organization ID", None)
        invalid == { i \in 1..Len(readings) : ~KvadoMeterEntity(readings[i].entity_id) }
    IN  IF validated.raised # NoExc
        THEN Return(M, ServiceOutcome(HomeAssistantError(
                           "Invalid input: " \o validated.raised.message)))
        ELSE IF ~KvadoSensorEntity(call.entity_id)
        THEN Return(M, ServiceOutcome(HomeAssistantError(
                           "Invalid entity_id " \o call.entity_id \o ": must be a valid KvadoSensor")))
        ELSE IF invalid # {}
        THEN Return(M, ServiceOutcome(HomeAssistantError(
                           "Invalid meter entity_id "
                           \o readings[CHOOSE i \in invalid : \A j \in invalid : i <= j].entity_id
                           \o ": must be a valid KvadoMeterSensor")))
        ELSE IF MissingParameters(M, account_id, organization_id)
        THEN ServiceResume(M, ReqOutcome(NoBody, NoExc,
                 "Missing required parameters for sending meter readings"))
        ELSE Push(M, ReadingsRequest(M, account_id, organization_id,
                                     MeterReadings(readings), validated.data.confirm))

\* authenticate up to its first await: the login goes through the request
\* engine with DEFAULT_HEADERS itself as the headers dict.
CallAuthenticate(M) ==
    Push(Push(M, AuthFrame(M)),
         RequestFrame("POST", AUTH_ENDPOINT, TRUE, <<>>,
                      [login |-> username, password |-> password]))

\* One pass of the loop body from the HTTP exchange to the next await,
\* given the server's answer r.
Exchange(M, r) ==
    LET f == Top(M)
        M1 == Log(M, RequestEvent(M, f, r))
        branch == StatusBranch(r.status)
    IN  IF r.status = TransportFailure
        THEN ExceptException(M1, Exc("ClientError", "Request error"))
        ELSE CASE branch = "ok" ->
                    IF r.body.kind = "unparsable"
                    THEN ExceptException(M1, Exc("ContentTypeError", "Request error"))
                    ELSE Return(M1, ReqOutcome(r.body, NoExc, None))
               [] branch = "bad_request" ->
                    ExceptException(M1, Exc("HomeAssistantError", ErrorMessage400(r.body)))
               [] branch = "unauthorized" ->
                    CallAuthenticate(
                        [SetTop(M1, [Top(M1) EXCEPT !.pc = "authenticate"])
                            EXCEPT !.reauths = @ + 1])
               [] branch = "server_error" ->
                    LET M2 == Log(M1, SleepEvent(f)) IN
                    SetTop(M2, [Top(M2) EXCEPT !.pc = "sleep"])
               [] OTHER ->
                    Return(M1, ReqOutcome(NoBody, NoExc, "Request failed"))

\* asyncio.sleep(backoff) is over: the backoff doubles and the pass ends.
AfterSleep(M) ==
    NextIteration(SetTop(M, [Top(M) EXCEPT !.backoff = @ * BACKOFF_MULTIPLIER]))

\* ---------------------------------------------------------------- actions
Commit(t, M) ==
    /\ token' = M.token
    /\ session_id' = M.session_id
    /\ entry' = M.entry
    /\ DEFAULT_HEADERS' = M.DEFAULT_HEADERS
    /\ stack' = [stack EXCEPT ![t] = M.stack]
    /\ reauths' = [reauths EXCEPT ![t] = M.reauths]
    /\ returned' = M.returned
    /\ data' = M.data
    /\ sensor_state' = M.sensor_state
    /\ steady' = M.steady
    /\ hass_data' = M.hass_data
    /\ platforms' = M.platforms
    /\ UNCHANGED <<entry_id, accounts, selected_accounts, upstream>>

\* A task with nothing in flight starts a top-level call.
Fresh(t) == [Machine(t) EXCEPT !.reauths = 0]

\* A data method that gives up before any request: it returns None.
Refused(M, method, log) ==
    [M EXCEPT !.returned = <<[frame |-> [fn |-> method],
                              out |-> ReqOutcome(NoBody, NoExc, log)]>>]

\* (account_id, organization_id) arguments the callers pass.
Accounts == { [ID |-> "1", organizationID |-> "5"],
              [ID |-> "", organizationID |-> "5"] }

\* The client the sensor platform builds carries the entry's id; the
\* coordinator and the send_meter_readings service hold that client, so
\* receipts, meters and readings only ever go through it.  The clients of
\* the setup entry point and of the configuration flow have no entry_id and
\* only authenticate and list the accounts.
PlatformClient == entry_id # None

\* KvadoApiClient.authenticate called by the integration (setup).
Authenticate(t) ==
    /\ stack[t] = <<>>
    /\ Commit(t, CallAuthenticate(Fresh(t)))

GetAccounts(t) ==
    /\ stack[t] = <<>>
    /\ LET M == Fresh(t) IN
       IF ~TruthyStr(M.session_id)
       THEN Commit(t, Refused(M, "get_accounts", "No active session"))
       ELSE Commit(t, Push(M, RequestFrame("GET", ACCOUNTS_ENDPOINT, FALSE,
                       DictMerge(M.DEFAULT_HEADERS,
                                 [k \in {"Session-Id"} |-> M.session_id]),
                       NoPayload)))

GetReceipts(t, account_id, organization_id) ==
    /\ stack[t] = <<>>
    /\ PlatformClient
    /\ LET M == Fresh(t) IN
       IF MissingParameters(M, account_id, organization_id)
       THEN Commit(t, Refused(M, "get_receipts", "Missing required parameters"))
       ELSE Commit(t, Push(M, ReceiptsRequest(M, account_id, organization_id)))

GetMeters(t, account_id, organization_id) ==
    /\ stack[t] = <<>>
    /\ PlatformClient
    /\ LET M == Fresh(t) IN
       IF MissingParameters(M, account_id, organization_id)
       THEN Commit(t, Refused(M, "get_meters", "Missing required parameters"))
       ELSE Commit(t, Push(M, MetersRequest(M, account_id, organization_id)))

SendMeterReadings(t, account_id, organization_id, confirm) ==
    /\ stack[t] = <<>>
    /\ PlatformClient
    /\ LET M == Fresh(t) IN
       IF MissingParameters(M, account_id, organization_id)
       THEN Commit(t, Refused(M, "send_meter_readings",
                              "Missing required parameters for sending meter readings"))
       ELSE Commit(t, Push(M, RequestFrame("POST", METERS_ENDPOINT, FALSE,
                       AccountHeaders(M, account_id, organization_id),
                       [confirm |-> confirm, meters |-> "readings"])))

\* The server answers the request the task's innermost _make_request sent.
HttpExchange(t, r) ==
    /\ stack[t] # <<>>
    /\ Top(Machine(t)).fn = "_make_request"
    /\ Top(Machine(t)).pc = "request"
    /\ r.status = 401 => reauths[t] < MaxReauth
    /\ Commit(t, Exchange(Machine(t), r))

\* asyncio.sleep(backoff) returns.
WakeUp(t) ==
    /\ stack[t] # <<>>
    /\ Top(Machine(t)).fn = "_make_request"
    /\ Top(Machine(t)).pc = "sleep"
    /\ Commit(t, AfterSleep(Machine(t)))

\* The pair the configuration flow stored in the entry; the clients built
\* at setup are constructed from it.
InitialCreds == { [token |-> "tok0", session_id |-> "sid0"] }

\* A client just built from the entry, nothing in flight.
InitClient ==
    /\ \E c \in InitialCreds :
          /\ token = c.token
          /\ session_id = c.session_id
          /\ entry = [exists |-> TRUE, token |-> c.token, session_id |-> c.session_id]
    /\ DEFAULT_HEADERS = InitialDefaultHeaders
    /\ stack = [t \in Tasks |-> <<>>]
    /\ reauths = [t \in Tasks |-> 0]
    /\ returned = <<>>

\* KvadoDataUpdateCoordinator.__init__: the selection as strings, the
\* account list as fetched, an empty snapshot; every sensor starts at "N/A".
InitCoordinator(selected, account_list) ==
    /\ selected_accounts = { PyStr(acc) : acc \in selected }
    /\ accounts = account_list
    /\ data = FreshData
    /\ sensor_state = [accounts |-> [a \in SensorAccounts |-> "N/A"],
                       meters |-> [m \in SensorMeters |-> "N/A"]]
    /\ steady = [run |-> 0, reauth |-> FALSE, faulty |-> FALSE]

Init ==
    /\ entry_id \in {None, "entry1"}
    /\ InitClient
    /\ InitCoordinator({}, << >>)
    /\ upstream = << >>
    /\ NotLoaded

Next ==
    \E t \in Tasks :
        \/ Authenticate(t)
        \/ GetAccounts(t)
        \/ \E a \in Accounts : GetReceipts(t, a.ID, a.organizationID)
        \/ \E a \in Accounts : GetMeters(t, a.ID, a.organizationID)
        \/ \E a \in Accounts, c \in BOOLEAN :
              SendMeterReadings(t, a.ID, a.organizationID, c)
        \/ \E r \in Responses : HttpExchange(t, r)
        \/ WakeUp(t)

Spec == Init /\ [][Next]_vars

\* ------------------------------------------------------ the refresh cycle
\* The account list get_accounts returned at setup and the identifiers a
\* user may have selected in the configuration flow.
AccountList ==
    << [ID |-> JInt("1"), organizationID |-> JInt("5")],
       [ID |-> JStr("2"), organizationID |-> JInt("5")] >>
Selectable == { JStr("1"), JStr("2"), JStr("3") }

\* _async_update_data is awaited: the cycle runs up to its first await.
UpdateData(t) ==
    /\ stack[t] = <<>>
    /\ PlatformClient
    /\ Commit(t, UpdateLoop(Push(Fresh(t), UpdateFrame)))

\* What the server may answer to a request, by endpoint.
Failures == { [status |-> s, body |-> NoBody] : s \in {401, 404, TransportFailure} }
LoginBodies == { Body("dict", "tok1", "sid1", None), Body("dict", None, None, "Invalid credentials") }
AnswersTo(f) ==
    Failures \cup
    { [status |-> 200, body |-> b] :
        b \in CASE f.url = AUTH_ENDPOINT -> LoginBodies
                [] f.url = METERS_ENDPOINT -> MetersBodies(f.headers["Account-Id"])
                [] OTHER -> ReceiptsBodies }
ServerAnswers(t) ==
    IF stack[t] # <<>> /\ Top(Machine(t)).fn = "_make_request"
    THEN AnswersTo(Top(Machine(t)))
    ELSE {}

InitRefresh ==
    /\ entry_id = "entry1"
    /\ InitClient
    /\ \E selected \in SUBSET Selectable : InitCoordinator(selected, AccountList)
    /\ upstream = << >>
    /\ Loaded

NextRefresh ==
    \E t \in Tasks :
        \/ UpdateData(t)
        \/ \E r \in ServerAnswers(t) : HttpExchange(t, r)

SpecRefresh == InitRefresh /\ [][NextRefresh]_vars

\* ------------------------------------------------------------- properties
\* _make_request calls in flight, and calls that returned in the last step.
FramesOf(t) == { stack[t][i] : i \in 1..Len(stack[t]) }
LiveRequests == { f \in UNION { FramesOf(t) : t \in Tasks } : f.fn = "_make_request" }
Done == { returned[i] : i \in 1..Len(returned) }
DoneRequests == { d \in Done : d.frame.fn = "_make_request" }
DoneAuths == { d \in Done : d.frame.fn = "authenticate" }

IsRequest(e) == e.ev = "request"
IsSleep(e) == e.ev = "sleep"
RequestsOf(tr) == SelectSeq(tr, IsRequest)
StatusSeq(tr) == [i \in 1..Len(RequestsOf(tr)) |-> RequestsOf(tr)[i].status]
SleepSeq(tr) == [i \in 1..Len(SelectSeq(tr, IsSleep)) |-> SelectSeq(tr, IsSleep)[i].secs]
Exhausted(d) == d.out.log = "Max retries (5) exceeded" /\ d.out.ret = NoBody
ReturnedNone(d) == d.out.ret = NoBody /\ d.out.raised = NoExc

\* C1: a call whose five attempts are all answered 500 sleeps exactly
\* 4, 8, 16, 32 (nothing after the fifth attempt) and then reports retry
\* exhaustion.
C1_BackoffSchedule ==
    \A d \in DoneRequests :
        StatusSeq(d.frame.trace) = <<500, 500, 500, 500, 500>> =>
            /\ SleepSeq(d.frame.trace) = <<4, 8, 16, 32>>
            /\ IsRequest(Last(d.frame.trace))
            /\ Exhausted(d)

\* C2: a 401 answered by a successful re-authentication uses up no retry
\* slot: the request is always sent again afterwards, and retry exhaustion
\* is reported only after five 500 answers.
C2_ReauthKeepsRetryBudget ==
    \A d \in DoneRequests :
        LET tr == d.frame.trace IN
        /\ \A i \in 1..Len(tr) :
              (tr[i].ev = "authenticate" /\ tr[i].ok) =>
                  \E j \in (i + 1)..Len(tr) : IsRequest(tr[j])
        /\ Exhausted(d) =>
              Cardinality({ i \in 1..Len(tr) : IsRequest(tr[i]) /\ tr[i].status = 500 }) = MAX_RETRIES

\* The case of C3: 401 first, re-authentication succeeds, then a 200 with a
\* readable body.
ReauthThen200(tr) ==
    /\ Len(tr) >= 3
    /\ IsRequest(tr[1]) /\ tr[1].status = 401
    /\ tr[2].ev = "authenticate" /\ tr[2].ok
    /\ IsRequest(tr[3]) /\ tr[3].status = 200 /\ tr[3].body.kind # "unparsable"

\* C3: when the first answer is 401, the re-authentication succeeds and the
\* next answer is 200, the call returns the body of that 200, and the second
\* request carried as Session-Id the identifier the client held after the
\* re-authentication.
C3_ReauthThenSuccess ==
    /\ \A f \in LiveRequests : ~ReauthThen200(f.trace)
    /\ \A d \in DoneRequests :
          LET tr == d.frame.trace IN
          ReauthThen200(tr) =>
              /\ Len(tr) = 3
              /\ d.out.ret = tr[3].body
              /\ d.out.raised = NoExc
              /\ "Session-Id" \in DOMAIN tr[3].headers
              /\ tr[3].headers["Session-Id"] = tr[2].session_id

C3_Witness ==
    \E d \in DoneRequests :
        LET tr == d.frame.trace IN
        /\ ReauthThen200(tr)
        /\ ~d.frame.aliased
        /\ d.out.ret.kind = "dict"
        /\ tr[2].session_id = "sid1"
        /\ tr[1].headers["Session-Id"] = "sid0"

\* C4: a 400 whose body carries a message reaches the caller of
\* _make_request as a HomeAssistantError holding that message.
C4_ValidationMessageSurfaced ==
    \A d \in DoneRequests :
        LET e == Last(d.frame.trace) IN
        (IsRequest(e) /\ e.status = 400 /\ e.body.message # None) =>
            d.out.raised = Exc("HomeAssistantError", e.body.message)

\* An answer that is neither 200, 401 nor the retried 500.
AbortingAnswer(e) ==
    IsRequest(e) /\ e.status \notin {TransportFailure, 200, 401, 500}

\* C5: a 400, or any status other than 200, 401 and the retried 500, is the
\* last thing the call does: no request, sleep or re-authentication follows
\* it and the call has returned.
C5_OtherStatusEndsCall ==
    /\ \A f \in LiveRequests : \A i \in 1..Len(f.trace) : ~AbortingAnswer(f.trace[i])
    /\ \A d \in DoneRequests :
          \A i \in 1..Len(d.frame.trace) :
              AbortingAnswer(d.frame.trace[i]) => i = Len(d.frame.trace)

C5_Witness ==
    /\ \E d \in DoneRequests :
          /\ Len(d.frame.trace) >= 3
          /\ AbortingAnswer(Last(d.frame.trace))
          /\ Last(d.frame.trace).status = 400
          /\ d.frame.attempt < MAX_RETRIES - 1
    /\ stack["main"] = <<>>

\* C6: every 5xx answer on an attempt that is not the last is followed by a
\* sleep of the current backoff and then by the same request again.
C6_Every5xxRetried ==
    \A tr \in { f.trace : f \in LiveRequests } \cup { d.frame.trace : d \in DoneRequests } :
        \A i \in 1..Len(tr) :
            (IsRequest(tr[i]) /\ tr[i].status >= 500 /\ tr[i].status <= 599
                /\ tr[i].attempt < MAX_RETRIES - 1) =>
                /\ i < Len(tr)
                /\ IsSleep(tr[i + 1])
                /\ i + 2 <= Len(tr) =>
                      /\ IsRequest(tr[i + 2])
                      /\ tr[i + 2].method = tr[i].method
                      /\ tr[i + 2].url = tr[i].url
                      /\ tr[i + 2].payload = tr[i].payload

\* An attempt the loop moves on from: a 500, or a 401 whose
\* re-authentication succeeded.
RetriedAttempt(tr, i) ==
    /\ IsRequest(tr[i])
    /\ \/ tr[i].status = 500
       \/ /\ tr[i].status = 401
          /\ i < Len(tr)
          /\ tr[i + 1].ev = "authenticate"
          /\ tr[i + 1].ok

\* C7: one call sends at most 5 requests, whatever mix of 401 (with
\* successful re-authentication) and 500 it meets, and a call whose 5
\* attempts were all such answers reports retry exhaustion.
C7_AtMostFiveRequests ==
    /\ \A f \in LiveRequests : Len(RequestsOf(f.trace)) <= MAX_RETRIES
    /\ \A d \in DoneRequests :
          LET tr == d.frame.trace IN
          /\ Len(RequestsOf(tr)) <= MAX_RETRIES
          /\ ( /\ Len(RequestsOf(tr)) = MAX_RETRIES
               /\ \A i \in 1..Len(tr) : IsRequest(tr[i]) => RetriedAttempt(tr, i) )
             => Exhausted(d)

C7_Witness ==
    \E d \in DoneRequests :
        LET tr == d.frame.trace IN
        /\ Len(RequestsOf(tr)) = MAX_RETRIES
        /\ \A i \in 1..Len(tr) : IsRequest(tr[i]) => RetriedAttempt(tr, i)
        /\ \E i \in 1..Len(tr) : IsRequest(tr[i]) /\ tr[i].status = 401
        /\ \E i \in 1..Len(tr) : IsRequest(tr[i]) /\ tr[i].status = 500
        /\ Exhausted(d)

FailedReauth(e) == e.ev = "authenticate" /\ ~e.ok

\* C8: a 401 whose re-authentication fails ends the call with a failure:
\* the request is not sent again and no sleep follows.
C8_FailedReauthEndsCall ==
    /\ \A f \in LiveRequests : \A i \in 1..Len(f.trace) : ~FailedReauth(f.trace[i])
    /\ \A d \in DoneRequests :
          \A i \in 1..Len(d.frame.trace) :
              FailedReauth(d.frame.trace[i]) =>
                  /\ i = Len(d.frame.trace)
                  /\ ReturnedNone(d)

C8_Witness ==
    \E d \in DoneRequests :
        /\ FailedReauth(Last(d.frame.trace))
        /\ Len(d.frame.trace) >= 4
        /\ d.frame.attempt < MAX_RETRIES - 1
        /\ ~d.frame.aliased

\* A transport-level failure: the exchange raised, or the 200 body could not
\* be parsed.
TransportFailed(e) ==
    /\ IsRequest(e)
    /\ \/ e.status = TransportFailure
       \/ e.status = 200 /\ e.body.kind = "unparsable"

\* C9: a transport-level failure on any attempt ends the whole call with a
\* failure at that attempt; nothing follows it.
C9_TransportFailureEndsCall ==
    /\ \A f \in LiveRequests : \A i \in 1..Len(f.trace) : ~TransportFailed(f.trace[i])
    /\ \A d \in DoneRequests :
          \A i \in 1..Len(d.frame.trace) :
              TransportFailed(d.frame.trace[i]) =>
                  /\ i = Len(d.frame.trace)
                  /\ ReturnedNone(d)

C9_Witness ==
    \E d \in DoneRequests :
        /\ TransportFailed(Last(d.frame.trace))
        /\ Last(d.frame.trace).status = TransportFailure
        /\ Len(d.frame.trace) >= 3
        /\ d.frame.attempt < MAX_RETRIES - 1

\* C10: an authenticate call that returns failure leaves token, session
\* identifier and persisted record as they were when it started.
C10_FailedAuthLeavesCredentials ==
    \A d \in DoneAuths :
        (~d.out.ok /\ d.out.raised = NoExc) => d.out.after = d.frame.before

\* The pair a client holds and the pair its configuration record stores.
HeldPair == [token |-> token, session_id |-> session_id]
PersistedPair == [token |-> entry.token, session_id |-> entry.session_id]
AuthInProgress == \E f \in UNION { FramesOf(t) : t \in Tasks } : f.fn = "authenticate"

\* C11: for a client that carries an entry id, every successful
\* authenticate leaves the record's token and session identifier equal to
\* the client's, and whenever no authenticate call is in progress the
\* persisted pair equals the held pair.
C11_RecordFollowsClient ==
    (entry_id # None /\ entry.exists) =>
        /\ \A d \in DoneAuths :
              d.out.ok =>
                  /\ d.out.after.entry.token = d.out.after.token
                  /\ d.out.after.entry.session_id = d.out.after.session_id
        /\ ~AuthInProgress => PersistedPair = HeldPair

C11_Witness ==
    /\ entry_id # None
    /\ ~AuthInProgress
    /\ \E d \in DoneAuths : d.out.ok /\ d.frame.before.token = "tok0" /\ d.out.after.token = "tok1"
    /\ \E f \in LiveRequests : f.url # AUTH_ENDPOINT /\ f.headers["Session-Id"] = "sid1"
    /\ HeldPair = [token |-> "tok1", session_id |-> "sid1"]
    /\ PersistedPair = HeldPair

\* authenticate calls open at once on a task's stack, each awaiting the
\* login it sent.
AuthDepth(t) ==
    Cardinality({ i \in 1..Len(stack[t]) : stack[t][i].fn = "authenticate" })

\* C24: a call ends after a number of requests that its own retry budget
\* bounds, also when the login is answered 401: the chain authenticate ->
\* _make_request -> authenticate comes to an end by itself, so however many
\* 401 answers the server is allowed (MaxReauth) the authenticate calls
\* never nest deeper than that.
C24_LoginChainEndsByItself ==
    \A t \in Tasks : AuthDepth(t) <= MaxReauth

\* The traces of the _make_request calls in flight or just returned.
Traces == { f.trace : f \in LiveRequests } \cup { d.frame.trace : d \in DoneRequests }

\* C25: after any sequence of calls and answers DEFAULT_HEADERS holds
\* exactly the keys and values the module defines, and no login request
\* carries a Session-Id header.
C25_DefaultHeadersNeverModified ==
    /\ DEFAULT_HEADERS = InitialDefaultHeaders
    /\ \A tr \in Traces : \A i \in 1..Len(tr) :
          (IsRequest(tr[i]) /\ tr[i].url = AUTH_ENDPOINT) =>
              "Session-Id" \notin DOMAIN tr[i].headers

\* C26: every request to an endpoint other than the authentication
\* endpoint carries a non-empty Session-Id, the request sent again after a
\* re-authentication included, whatever the login response held.
C26_SessionIdOnEveryRequest ==
    \A tr \in Traces : \A i \in 1..Len(tr) :
        (IsRequest(tr[i]) /\ tr[i].url # AUTH_ENDPOINT) =>
            /\ "Session-Id" \in DOMAIN tr[i].headers
            /\ TruthyStr(tr[i].headers["Session-Id"])

\* ---------------------------------------------------------- the scheduler
\* The scheduler runs a refresh: it awaits _async_update_data, which runs
\* up to its first await.
AsyncRefresh(t) ==
    /\ stack[t] = <<>>
    /\ PlatformClient
    /\ Commit(t, UpdateLoop(Push(Push([Fresh(t) EXCEPT !.steady.faulty = FALSE],
                                      RefreshFrame), UpdateFrame)))

\* The account data the server may hold: the first account's receipts show
\* an amount due, show nothing due, or carry a null info; the rest is fixed.
Worlds ==
    { [a \in {"1", "2"} |->
          [receipts |-> IF a = "1" THEN r ELSE ReceiptsWith("1500.50"),
           meters |-> TwoMeters(a)]] :
        r \in { ReceiptsWith("1500.50"), ReceiptsWith("0.00"), DataBody([info |-> Null]) } }

\* The server's data changes between two cycles.
UpstreamChanges ==
    /\ \A t \in Tasks : stack[t] = <<>>
    /\ upstream' \in Worlds \ {upstream}
    /\ steady' = [run |-> 0, reauth |-> FALSE, faulty |-> FALSE]
    /\ returned' = <<>>
    /\ UNCHANGED <<token, session_id, entry_id, entry, DEFAULT_HEADERS, stack,
                   reauths, accounts, selected_accounts, data, sensor_state,
                   hass_data, platforms>>

\* A server that holds `upstream`: it answers a data request with the data
\* of the account named in the headers or with 401, a login with a fresh
\* pair; or it refuses the answer (404).
Refusal == [status |-> 404, body |-> NoBody]
UpstreamAnswersTo(f) ==
    CASE f.url = AUTH_ENDPOINT ->
            { [status |-> 200, body |-> Body("dict", "tok1", "sid1", None)], Refusal }
      [] f.url = METERS_ENDPOINT ->
            { [status |-> 200, body |-> upstream[f.headers["Account-Id"]].meters],
              [status |-> 401, body |-> NoBody], Refusal }
      [] OTHER ->
            { [status |-> 200, body |-> upstream[f.headers["Account-Id"]].receipts],
              [status |-> 401, body |-> NoBody], Refusal }

UpstreamAnswers(t) ==
    IF stack[t] # <<>> /\ Top(Machine(t)).fn = "_make_request"
    THEN UpstreamAnswersTo(Top(Machine(t)))
    ELSE {}

UpstreamExchange(t, r) ==
    /\ stack[t] # <<>>
    /\ Top(Machine(t)).fn = "_make_request"
    /\ Top(Machine(t)).pc = "request"
    /\ r.status = 401 => reauths[t] < MaxReauth
    /\ Commit(t, Exchange([Machine(t) EXCEPT !.steady.faulty = @ \/ r = Refusal], r))

InitScheduler ==
    /\ entry_id = "entry1"
    /\ InitClient
    /\ InitCoordinator({ JStr("1"), JStr("2") }, AccountList)
    /\ upstream \in Worlds
    /\ Loaded

NextScheduler ==
    \/ \E t \in Tasks :
          \/ AsyncRefresh(t)
          \/ \E r \in UpstreamAnswers(t) : UpstreamExchange(t, r)
    \/ UpstreamChanges

SpecScheduler == InitScheduler /\ [][NextScheduler]_vars

\* -------------------------------------------------- the service in use
RECURSIVE ListsUpTo(_, _)
ListsUpTo(S, n) ==
    IF n = 0
    THEN { << >> }
    ELSE ListsUpTo(S, n - 1) \cup
         { Append(l, x) : l \in { k \in ListsUpTo(S, n - 1) : Len(k) = n - 1 }, x \in S }

\* The data of a service call: the originating entity is the account
\* sensor, the sensor without Organization ID, the entity of another domain
\* or the one without state; a reading names the meter sensor, the account
\* sensor (no Meter ID), the entity of another domain or the one without
\* state.
Callers == { "sensor.kvado_account", "sensor.foreign_account", "number.kvado",
             "sensor.kvado_gone" }
Metered == { "sensor.kvado_meter", "sensor.kvado_account", "number.kvado",
             "sensor.kvado_gone" }
Readings == [entity_id : Metered, newValue : { JStr("12.5") }]
Calls ==
    [entity_id : Callers, meter_readings : ListsUpTo(Readings, MaxReadings),
     confirm : BOOLEAN]

\* kvado.send_meter_readings is called.
HandleSendMeterReadings(t, call) ==
    /\ stack[t] = <<>>
    /\ PlatformClient
    /\ Commit(t, ServiceCall(Push(Fresh(t), ServiceFrame(call))))

\* What the server may answer to a submission and to a login.
ServiceAnswersTo(f) ==
    IF f.url = AUTH_ENDPOINT
    THEN { [status |-> 200, body |-> Body("dict", "tok1", "sid1", None)],
           [status |-> 404, body |-> NoBody] }
    ELSE { [status |-> 200, body |-> Body("dict", None, None, "accepted")],
           [status |-> 400, body |-> Body("dict", None, None, "Invalid meter value")],
           [status |-> 401, body |-> NoBody],
           [status |-> 500, body |-> NoBody],
           [status |-> TransportFailure, body |-> NoBody] }
ServiceAnswers(t) ==
    IF stack[t] # <<>> /\ Top(Machine(t)).fn = "_make_request"
    THEN ServiceAnswersTo(Top(Machine(t)))
    ELSE {}

InitService ==
    /\ entry_id = "entry1"
    /\ InitClient
    /\ InitCoordinator({ JStr("1") }, AccountList)
    /\ upstream = << >>
    /\ Loaded

NextService ==
    \E t \in Tasks :
        \/ \E call \in Calls : HandleSendMeterReadings(t, call)
        \/ \E r \in ServiceAnswers(t) : HttpExchange(t, r)
        \/ WakeUp(t)

SpecService == InitService /\ [][NextService]_vars

\* ------------------------------ a cycle and a service call interleaved
\* The coordinator's cycle and the service handler are two tasks of the
\* event loop that share the platform's client.
Workers == {"refresh", "service"}

\* A call the service accepts.
SubmitCall ==
    [entity_id |-> "sensor.kvado_account",
     meter_readings |-> << [entity_id |-> "sensor.kvado_meter", newValue |-> JStr("12.5")] >>,
     confirm |-> TRUE]

\* Every login answer carries a pair of its own; the answers to the data
\* requests are fixed.  Any request may be answered 401, a login 404.
FreshPairs == { Body("dict", "tok1", "sid1", None), Body("dict", "tok2", "sid2", None) }
InterleavedAnswersTo(f) ==
    CASE f.url = AUTH_ENDPOINT ->
            { [status |-> 200, body |-> b] : b \in FreshPairs }
            \cup { [status |-> s, body |-> NoBody] : s \in {401, 404} }
      [] f.url = METERS_ENDPOINT /\ f.method = "GET" ->
            { [status |-> 200, body |-> TwoMeters(f.headers["Account-Id"])],
              [status |-> 401, body |-> NoBody] }
      [] f.url = METERS_ENDPOINT ->
            { [status |-> 200, body |-> Body("dict", None, None, "accepted")],
              [status |-> 401, body |-> NoBody] }
      [] OTHER ->
            { [status |-> 200, body |-> ReceiptsWith("1500.50")],
              [status |-> 401, body |-> NoBody] }
InterleavedAnswers(t) ==
    IF stack[t] # <<>> /\ Top(Machine(t)).fn = "_make_request"
    THEN InterleavedAnswersTo(Top(Machine(t)))
    ELSE {}

InitInterleaved ==
    /\ entry_id = ENTRY_ID
    /\ \E c \in InitialCreds :
          /\ token = c.token
          /\ session_id = c.session_id
          /\ entry = [exists |-> TRUE, token |-> c.token, session_id |-> c.session_id]
    /\ DEFAULT_HEADERS = InitialDefaultHeaders
    /\ stack = [t \in Workers |-> <<>>]
    /\ reauths = [t \in Workers |-> 0]
    /\ returned = <<>>
    /\ InitCoordinator({ JStr("1") }, AccountList)
    /\ upstream = << >>
    /\ Loaded

NextInterleaved ==
    \/ UpdateData("refresh")
    \/ HandleSendMeterReadings("service", SubmitCall)
    \/ \E t \in Workers : \E r \in InterleavedAnswers(t) : HttpExchange(t, r)

SpecInterleaved == InitInterleaved /\ [][NextInterleaved]_vars

\* -------------------------------------------------- the entry being set up
\* The framework sets the entry up, again after a ConfigEntryNotReady: a
\* client without entry_id is built from the entry and authenticates.
AsyncSetupEntry(t) ==
    /\ stack[t] = <<>>
    /\ NotLoaded
    /\ Commit(t, CallAuthenticate(Push(NewClient(Fresh(t)), SetupFrame)))

InitSetup ==
    /\ entry_id = None
    /\ InitClient
    /\ InitCoordinator({}, << >>)
    /\ upstream = << >>
    /\ NotLoaded

NextSetup ==
    \E t \in Tasks :
        \/ AsyncSetupEntry(t)
        \/ \E r \in Responses : HttpExchange(t, r)
        \/ WakeUp(t)

SpecSetup == InitSetup /\ [][NextSetup]_vars

\* ---------------------------------------------- properties of one cycle
\* _async_update_data calls that finished in the last step, the fetches
\* they made, and whether they returned a snapshot or raised UpdateFailed.
DoneUpdates == { d \in Done : d.frame.fn = "_async_update_data" }
ReturnedSnapshot(d) == d.out.raised = NoExc
Fetches(d) == { d.frame.fetched[i] : i \in 1..Len(d.frame.fetched) }
ReceiptsFetches(d) == { x \in Fetches(d) : x.method = "get_receipts" }
MetersFetches(d) == { x \in Fetches(d) : x.method = "get_meters" }
\* Every fetch of the cycle got a body from the request engine.
AllFetched(fetched) == \A i \in 1..Len(fetched) : fetched[i].ret # NoBody
ListedIds == { PyStr(accounts[i].ID) : i \in 1..Len(accounts) }

\* The response carries info.total_pay_amount.value.
HasAmount(b) ==
    /\ b.kind = "dict"
    /\ "info" \in DOMAIN b
    /\ "total_pay_amount" \in DOMAIN b.info
    /\ "value" \in DOMAIN b.info.total_pay_amount
\* The meters a response lists.
ListedMeters(b) ==
    IF b.kind = "dict" /\ "meters" \in DOMAIN b
    THEN { b.meters[i] : i \in 1..Len(b.meters) }
    ELSE {}
HasReading(m) == "values" \in DOMAIN m /\ Len(m.values) > 0 /\ "value" \in DOMAIN m.values[1]
\* Responses the cycle cannot digest: info is null, or a meter has an empty
\* values list.
Malformed(b) ==
    \/ b.kind = "dict" /\ "info" \in DOMAIN b /\ IsNull(b.info)
    \/ \E m \in ListedMeters(b) : "values" \in DOMAIN m /\ Len(m.values) = 0

\* C12: with the selection a subset of the listed accounts, a cycle whose
\* receipts and meters fetches all succeed returns a snapshot whose account
\* keys are exactly the selection; such a cycle ends without a snapshot only
\* on a response it cannot digest.
C12_AccountKeysAreSelection ==
    \A d \in DoneUpdates :
        (selected_accounts \subseteq ListedIds /\ AllFetched(d.frame.fetched)) =>
            /\ ReturnedSnapshot(d) => DOMAIN d.out.ret.accounts = selected_accounts
            /\ ~ReturnedSnapshot(d) => \E x \in Fetches(d) : Malformed(x.ret)

C12_Witness ==
    \E d \in DoneUpdates :
        /\ selected_accounts = {"1", "2"}
        /\ AllFetched(d.frame.fetched)
        /\ Len(d.frame.fetched) = 4
        /\ ReturnedSnapshot(d)
        /\ DOMAIN d.out.ret.accounts = {"1", "2"}

\* C13: when every fetch succeeds, an account's entry is the
\* info.total_pay_amount.value of that account's receipts response and a
\* meter's entry is the value of the first element of its values list.
C13_EntriesAreFetchedValues ==
    \A d \in DoneUpdates :
        (ReturnedSnapshot(d) /\ AllFetched(d.frame.fetched)) =>
            /\ \A x \in ReceiptsFetches(d) :
                  HasAmount(x.ret) =>
                      /\ x.account_id \in DOMAIN d.out.ret.accounts
                      /\ d.out.ret.accounts[x.account_id] = x.ret.info.total_pay_amount.value
            /\ \A x \in MetersFetches(d) : \A m \in ListedMeters(x.ret) :
                  HasReading(m) =>
                      /\ PyStr(m.ID) \in DOMAIN d.out.ret.meters
                      /\ d.out.ret.meters[PyStr(m.ID)] = m.values[1].value

C13_Witness ==
    \E d \in DoneUpdates :
        /\ ReturnedSnapshot(d)
        /\ AllFetched(d.frame.fetched)
        /\ \E x \in ReceiptsFetches(d) : HasAmount(x.ret) /\ x.account_id = "2"
        /\ \E x \in MetersFetches(d) : \E m \in ListedMeters(x.ret) :
              HasReading(m) /\ Len(m.values) = 2 /\ m.values[1] # m.values[2]
        /\ d.out.ret.accounts["2"] = "1500.50"
        /\ "201" \in DOMAIN d.out.ret.meters
        /\ d.out.ret.meters["201"] = "12.5"

\* C14: whatever the fetches gave, a returned snapshot's account keys lie in
\* the selection and in the account list fetched at setup, and its meter
\* keys all come from a meters response fetched for one of those accounts.
C14_KeysWithinSelection ==
    \A d \in DoneUpdates :
        ReturnedSnapshot(d) =>
            /\ DOMAIN d.out.ret.accounts \subseteq selected_accounts \cap ListedIds
            /\ DOMAIN d.out.ret.meters \subseteq
                  { PyStr(m.ID) : m \in UNION { ListedMeters(x.ret) :
                        x \in { y \in MetersFetches(d) :
                                  y.account_id \in selected_accounts \cap ListedIds } } }

C14_Witness ==
    \E d \in DoneUpdates :
        /\ ReturnedSnapshot(d)
        /\ selected_accounts = {"2", "3"}
        /\ ~AllFetched(d.frame.fetched)
        /\ DOMAIN d.out.ret.accounts = {"2"}
        /\ DOMAIN d.out.ret.meters = {"201", "202"}

\* C15: a selected account's receipts fetch that fails does not abort the
\* cycle: "N/A" is recorded for that account, its meters and the remaining
\* accounts are fetched, and the returned snapshot holds the other accounts'
\* fetched values.
C15_FailedReceiptsIsolated ==
    \A d \in DoneUpdates : \A i \in 1..Len(d.frame.fetched) :
        LET x == d.frame.fetched[i] IN
        (x.method = "get_receipts" /\ x.ret = NoBody) =>
            /\ i < Len(d.frame.fetched)
            /\ d.frame.fetched[i + 1].method = "get_meters"
            /\ d.frame.fetched[i + 1].account_id = x.account_id
            /\ ~ReturnedSnapshot(d) => \E y \in Fetches(d) : Malformed(y.ret)
            /\ ReturnedSnapshot(d) =>
                  /\ DOMAIN d.out.ret.accounts = selected_accounts \cap ListedIds
                  /\ d.out.ret.accounts[x.account_id] = "N/A"
                  /\ \A y \in ReceiptsFetches(d) :
                        HasAmount(y.ret) =>
                            d.out.ret.accounts[y.account_id] = y.ret.info.total_pay_amount.value

C15_Witness ==
    \E d \in DoneUpdates :
        /\ ReturnedSnapshot(d)
        /\ \E x \in ReceiptsFetches(d) : x.account_id = "1" /\ x.ret = NoBody
        /\ \E y \in ReceiptsFetches(d) : y.account_id = "2" /\ HasAmount(y.ret)
        /\ d.out.ret.accounts["1"] = "N/A"
        /\ d.out.ret.accounts["2"] = "1500.50"

\* C16: when the receipts fetch succeeds but the response has no total
\* amount due (info, total_pay_amount or value is missing), the snapshot
\* records "N/A" for the account, as it does when the fetch fails.
NoAmount(b) == b.kind \in {"dict", "empty"} /\ ~HasAmount(b) /\ ~Malformed(b)
C16_MissingAmountIsSentinel ==
    \A d \in DoneUpdates :
        ReturnedSnapshot(d) =>
            \A x \in ReceiptsFetches(d) :
                NoAmount(x.ret) => d.out.ret.accounts[x.account_id] = "N/A"

\* C22: a cycle that meets a response it cannot digest (a receipts response
\* whose info is null, a meter whose values list is empty) stops at that
\* fetch and ends in UpdateFailed with no snapshot, whatever it had already
\* gathered for earlier accounts.
C22_ExceptionAbortsCycle ==
    \A d \in DoneUpdates : \A i \in 1..Len(d.frame.fetched) :
        Malformed(d.frame.fetched[i].ret) =>
            /\ i = Len(d.frame.fetched)
            /\ ~ReturnedSnapshot(d)
            /\ d.out.raised.exc = "UpdateFailed"
            /\ d.out.ret = FreshData

\* The second account's meters response has an empty values list after the
\* first account's amount and readings had been gathered.
C22_Witness ==
    \E d \in DoneUpdates :
        /\ Len(d.frame.fetched) = 4
        /\ Malformed(d.frame.fetched[4].ret)
        /\ d.frame.fetched[4].method = "get_meters"
        /\ d.frame.data.accounts = [a \in {"1", "2"} |-> "1500.50"]
        /\ "101" \in DOMAIN d.frame.data.meters
        /\ d.frame.data.meters["101"] = "12.5"
        /\ ~ReturnedSnapshot(d)

\* ------------------------------------------- properties of the scheduler
\* What the sensors show when they have read snapshot d.
ViewOf(d) ==
    [accounts |-> [a \in SensorAccounts |-> DictGet(d.accounts, a, "N/A")],
     meters |-> [m \in SensorMeters |-> DictGet(d.meters, m, "N/A")]]
CycleInProgress == \E f \in UNION { FramesOf(t) : t \in Tasks } : f.fn = "_async_update_data"
DoneRefreshes == { d \in Done : d.frame.fn = "async_refresh" }

\* C17: the snapshot the sensors see changes only by being replaced as a
\* whole by the snapshot a cycle returns; while a cycle is in progress the
\* sensors read the previous snapshot, and a cycle that ends in UpdateFailed
\* leaves it in place.
C17_SnapshotReplacedWhole ==
    [][ /\ data' # data =>
              \E d \in DoneUpdates' : ReturnedSnapshot(d) /\ data' = d.out.ret
        /\ sensor_state' # sensor_state =>
              \E d \in DoneUpdates' : ReturnedSnapshot(d) /\ sensor_state' = ViewOf(d.out.ret)
        /\ sensor_state' = ViewOf(data')
        /\ (CycleInProgress' \/ \E d \in DoneUpdates' : ~ReturnedSnapshot(d)) =>
              /\ data' = data
              /\ sensor_state' = sensor_state ]_vars

\* A cycle has just ended in UpdateFailed and the sensors still show the
\* amounts and readings of the snapshot published before it.
C17_Witness ==
    /\ \E d \in DoneUpdates : ~ReturnedSnapshot(d)
    /\ \E d \in DoneRefreshes : ~d.out.ok
    /\ data.accounts = [a \in {"1", "2"} |-> IF a = "1" THEN "0.00" ELSE "1500.50"]
    /\ sensor_state.accounts["1"] = "0.00"
    /\ sensor_state.meters["201"] = "12.5"

\* C18: two cycles one after another against the same upstream data (every
\* receipts and meters request answered, with the same data) publish equal
\* snapshots, also when an earlier one re-authenticated after a 401 and the
\* later one did not.
C18_SameDataSameSnapshot ==
    [][ (steady.run >= 1 /\ steady'.run >= 2) => data' = data ]_vars

\* The second of two such cycles has just published without any
\* re-authentication, and one before it had re-authenticated.
C18_Witness ==
    /\ steady.run = 2
    /\ steady.reauth
    /\ reauths["main"] = 0
    /\ \E d \in DoneRefreshes : d.out.ok
    /\ token = "tok1"
    /\ data.accounts["1"] = "1500.50"

\* --------------------------------------------- properties of the service
\* Service calls waiting for their submission, and those that ended in the
\* last step.
LiveServices == { f \in UNION { FramesOf(t) : t \in Tasks } : f.fn = "handle_send_meter_readings" }
DoneServices == { d \in Done : d.frame.fn = "handle_send_meter_readings" }
InvalidInput(d) ==
    /\ d.out.raised.exc = "HomeAssistantError"
    /\ d.out.raised.message = "Invalid input: length of value must be at least 1"

\* C19: a send_meter_readings call with an empty meter_readings list ends
\* with the invalid-input error and issues no HTTP request, neither the
\* submission nor a login.
C19_EmptyReadingsRejected ==
    /\ \A f \in LiveServices : Len(f.call.meter_readings) > 0
    /\ \A d \in DoneServices :
          Len(d.frame.call.meter_readings) = 0 =>
              /\ InvalidInput(d)
              /\ DoneRequests = {}
              /\ LiveRequests = {}
              /\ DoneAuths = {}

C19_Witness ==
    \E d \in DoneServices :
        /\ d.frame.call.entity_id = "sensor.kvado_account"
        /\ d.frame.call.meter_readings = << >>
        /\ InvalidInput(d)
        /\ token = "tok1"

\* The entities a call names, as the claim requires them.
GoodCaller(e) ==
    e \in DOMAIN States /\ States[e].domain = "sensor"
        /\ "Account ID" \in DOMAIN States[e].attributes
GoodMeter(e) ==
    e \in DOMAIN States /\ States[e].domain = "sensor"
        /\ "Meter ID" \in DOMAIN States[e].attributes
BadPositions(call) ==
    { i \in 1..Len(call.meter_readings) : ~GoodMeter(call.meter_readings[i].entity_id) }
GoodEntities(call) == GoodCaller(call.entity_id) /\ BadPositions(call) = {}

\* C20: the submission is issued only after the originating entity and
\* every listed entity have been checked: a call that names a bad entity,
\* at whatever position of the list, ends with an error and issues no HTTP
\* request, and a submission in flight carries one item per reading.
C20_SubmitAfterAllChecks ==
    /\ \A f \in LiveServices : GoodEntities(f.call)
    /\ \A t \in Tasks :
          (Len(stack[t]) >= 2 /\ stack[t][1].fn = "handle_send_meter_readings") =>
              /\ stack[t][2].url = METERS_ENDPOINT
              /\ Len(stack[t][2].payload.meters) = Len(stack[t][1].call.meter_readings)
    /\ \A d \in DoneServices :
          ~GoodEntities(d.frame.call) =>
              /\ d.out.raised.exc = "HomeAssistantError"
              /\ DoneRequests = {}
              /\ LiveRequests = {}
              /\ DoneAuths = {}

\* A call whose last listed entity is the bad one ends with the error about
\* that entity.
C20_Witness ==
    \E d \in DoneServices :
        /\ GoodCaller(d.frame.call.entity_id)
        /\ Len(d.frame.call.meter_readings) = MaxReadings
        /\ BadPositions(d.frame.call) = { MaxReadings }
        /\ d.out.raised.message =
              "Invalid meter entity_id number.kvado: must be a valid KvadoMeterSensor"

\* ----------------------------------------------- properties of the setup
LiveSetups == { f \in UNION { FramesOf(t) : t \in Tasks } : f.fn = "async_setup_entry" }
NotReady(out) ==
    out.raised = ConfigEntryNotReady("Failed to authenticate with Kvado API.")

\* C21: when the authenticate call of async_setup_entry returns failure,
\* setup ends raising ConfigEntryNotReady; and as long as setup has not
\* seen authenticate succeed (it is still waiting, authenticate returned
\* failure or raised) the registry holds no client for the entry and no
\* platform has been set up.
C21_FailedSetupNotReady ==
    /\ LiveSetups # {} => NotLoaded
    /\ \A i \in 2..Len(returned) :
          returned[i].frame.fn = "async_setup_entry" =>
              LET authenticated == returned[i - 1].out IN
              /\ returned[i - 1].frame.fn = "authenticate"
              /\ (authenticated.raised = NoExc /\ ~authenticated.ok) =>
                    NotReady(returned[i].out)
              /\ ~authenticated.ok => NotLoaded

\* Setup has just ended with ConfigEntryNotReady after a login that was
\* retried, and nothing has been stored or forwarded.
C21_Witness ==
    /\ \E d \in Done : d.frame.fn = "async_setup_entry" /\ NotReady(d.out)
    /\ \E d \in DoneRequests :
          d.frame.url = AUTH_ENDPOINT /\ Len(RequestsOf(d.frame.trace)) >= 2
    /\ hass_data = EmptyDict
    /\ platforms = {}

\* ------------------------------- properties of the interleaved callers
\* The pairs that came from one login response each: the one the
\* configuration flow stored and those the server hands out.
ResponsePairs ==
    InitialCreds \cup { [token |-> b.token, session_id |-> b.sessionID] : b \in FreshPairs }
RequestsInFlight(t) == { f \in FramesOf(t) : f.fn = "_make_request" }
Reauthenticated(f) == \E i \in 1..Len(f.trace) : f.trace[i].ev = "authenticate" /\ f.trace[i].ok

\* C23: with a refresh cycle and a service call interleaved on one client
\* and both re-authenticating, the token and the session identifier the
\* client holds always come from one login response, and so does the pair
\* in the persisted record.
C23_CredentialsFromOneResponse ==
    /\ HeldPair \in ResponsePairs
    /\ PersistedPair \in ResponsePairs

\* Both callers have re-authenticated, each with a login answer of its own:
\* the cycle's retried request carries the first answer's identifier while
\* the client already holds the pair of the second, which the service's
\* retried request carries.
C23_Witness ==
    /\ \E f \in RequestsInFlight("refresh") :
          Reauthenticated(f) /\ f.headers["Session-Id"] = "sid1"
    /\ \E f \in RequestsInFlight("service") :
          Reauthenticated(f) /\ f.headers["Session-Id"] = "sid2"
    /\ HeldPair = [token |-> "tok2", session_id |-> "sid2"]
    /\ PersistedPair = HeldPair

====
